---- MODULE Spec2Model ----
(***************************************************************************)
(* Model of 0x02-redis_basic/exercise.py: the Cache class (store / get /   *)
(* get_str), the module-level get_int and replay, and the count_calls and  *)
(* call_history decorators, running against one Redis database.            *)
(*                                                                         *)
(* Python values are records [type, val]; val is always a sequence of      *)
(* integers: the code points of a str, the bytes of a bytes object, <<n>>  *)
(* for the int n, <<t>> for the float t/10 (one decimal digit), <<>> for   *)
(* None and for a raised exception (type = the exception's class).         *)
(***************************************************************************)
EXTENDS Integers, Sequences, FiniteSets, TLC

\* ---------------------------------------------------------------- bounds
\* Number of store invocations a behaviour makes in total.
MaxCalls == 2
\* Number of concurrent callers sharing the Redis database.
NumProcs == 2

Procs == 1..NumProcs
\* uuid4 draws from this pool.
Keys == 1..MaxCalls
\* A key name no store invocation ever generated.
MissingKey == MaxCalls + 1

\* ---------------------------------------------------------- Python values
MkStr(s) == [type |-> "str", val |-> s]
MkBytes(b) == [type |-> "bytes", val |-> b]
MkInt(n) == [type |-> "int", val |-> <<n>>]
MkFloat(t) == [type |-> "float", val |-> <<t>>]
PyNone == [type |-> "None", val |-> <<>>]
Raise(e) == [type |-> e, val |-> <<>>]

IsError(v) ==
  v.type \in {"TypeError", "ValueError", "AttributeError", "UnicodeDecodeError", "DataError",
              "ConnectionError"}

\* Python's ==: same type and same content, or an int and a float that denote
\* the same number.
PyEq(a, b) ==
  \/ a.type = b.type /\ a.val = b.val
  \/ a.type = "int" /\ b.type = "float" /\ 10 * a.val[1] = b.val[1]
  \/ a.type = "float" /\ b.type = "int" /\ a.val[1] = 10 * b.val[1]

\* The values the callers pass to store: "bar", "é", b"foo", 123, -7, 1.5.
Values ==
  { MkStr(<<98, 97, 114>>), MkStr(<<233>>), MkBytes(<<102, 111, 111>>),
    MkInt(123), MkInt(0 - 7), MkFloat(15) }

\* The values the concurrent callers pass to store: "foo", 42.
ConcValues == { MkStr(<<102, 111, 111>>), MkInt(42) }

\* A value of a type the client can encode and one it cannot: "foo", None.
FailValues == { MkStr(<<102, 111, 111>>), PyNone }

\* The transforms the callers pass to get: none, int, lambda d: d.decode("utf-8").
Fns == {"none", "int", "decode"}

\* ------------------------------------------------------ text conversions
Abs(n) == IF n < 0 THEN 0 - n ELSE n

RECURSIVE Digits(_)
\* The decimal digits of a natural number, as ASCII codes.
Digits(n) == IF n < 10 THEN <<48 + n>> ELSE Digits(n \div 10) \o <<48 + (n % 10)>>

\* repr of an int.
ReprInt(n) == IF n < 0 THEN <<45>> \o Digits(0 - n) ELSE Digits(n)

\* repr of a float with one decimal digit, given in tenths.
ReprFloat(t) ==
  (IF t < 0 THEN <<45>> ELSE <<>>) \o Digits(Abs(t) \div 10) \o <<46, 48 + (Abs(t) % 10)>>

HexDigit(d) == IF d < 10 THEN 48 + d ELSE 87 + d

\* One byte inside the repr of a bytes object.
ReprByte(b) ==
  IF b = 92 THEN <<92, 92>>
  ELSE IF b = 39 THEN <<92, 39>>
  ELSE IF b = 9 THEN <<92, 116>>
  ELSE IF b = 10 THEN <<92, 110>>
  ELSE IF b = 13 THEN <<92, 114>>
  ELSE IF b < 32 \/ b >= 127 THEN <<92, 120, HexDigit(b \div 16), HexDigit(b % 16)>>
  ELSE <<b>>

RECURSIVE ReprBytesBody(_)
ReprBytesBody(b) == IF b = <<>> THEN <<>> ELSE ReprByte(Head(b)) \o ReprBytesBody(Tail(b))

\* repr of a bytes object: b'...'.
ReprBytes(b) == <<98, 39>> \o ReprBytesBody(b) \o <<39>>

\* One character inside the repr of a str (printable characters stay as they are).
ReprChar(c) ==
  IF c = 92 THEN <<92, 92>>
  ELSE IF c = 39 THEN <<92, 39>>
  ELSE IF c < 32 \/ c = 127 THEN <<92, 120, HexDigit(c \div 16), HexDigit(c % 16)>>
  ELSE <<c>>

RECURSIVE ReprStrBody(_)
ReprStrBody(s) == IF s = <<>> THEN <<>> ELSE ReprChar(Head(s)) \o ReprStrBody(Tail(s))

\* repr of a Python value, as code points.
Repr(v) ==
  CASE v.type = "str" -> <<39>> \o ReprStrBody(v.val) \o <<39>>
    [] v.type = "bytes" -> ReprBytes(v.val)
    [] v.type = "int" -> ReprInt(v.val[1])
    [] v.type = "float" -> ReprFloat(v.val[1])
    [] OTHER -> <<78, 111, 110, 101>>

\* str(args) for the one-element tuple args = (data,): "(<repr>,)".
StrArgs(data) == <<40>> \o Repr(data) \o <<44, 41>>

RECURSIVE Utf8Encode(_)
\* str.encode("utf-8") on code points below 65536.
Utf8Encode(s) ==
  IF s = <<>> THEN <<>>
  ELSE LET c == Head(s)
           b == IF c < 128 THEN <<c>>
                ELSE IF c < 2048 THEN <<192 + (c \div 64), 128 + (c % 64)>>
                ELSE <<224 + (c \div 4096), 128 + ((c \div 64) % 64), 128 + (c % 64)>>
       IN b \o Utf8Encode(Tail(s))

IsCont(b) == b >= 128 /\ b < 192

RECURSIVE Utf8Decode(_)
\* bytes.decode("utf-8"): [ok, val], ok = FALSE for an invalid sequence.
Utf8Decode(b) ==
  IF b = <<>> THEN [ok |-> TRUE, val |-> <<>>]
  ELSE LET h == Head(b)
           n == IF h < 128 THEN 1
                ELSE IF h >= 194 /\ h < 224 THEN 2
                ELSE IF h >= 224 /\ h < 240 THEN 3
                ELSE 0
           cp == IF n = 1 THEN h
                 ELSE IF n = 2 THEN (h - 192) * 64 + (b[2] - 128)
                 ELSE (h - 224) * 4096 + (b[2] - 128) * 64 + (b[3] - 128)
           good == /\ n > 0
                   /\ Len(b) >= n
                   /\ \A i \in 2..n : IsCont(b[i])
                   /\ (n = 3 => cp >= 2048 /\ (cp < 55296 \/ cp > 57343))
       IN IF ~good THEN [ok |-> FALSE, val |-> <<>>]
          ELSE LET rest == Utf8Decode(SubSeq(b, n + 1, Len(b)))
               IN IF rest.ok THEN [ok |-> TRUE, val |-> <<cp>> \o rest.val]
                  ELSE rest

IsDigit(b) == b >= 48 /\ b <= 57

RECURSIVE DigitsValue(_)
DigitsValue(d) ==
  IF d = <<>> THEN 0 ELSE 10 * DigitsValue(SubSeq(d, 1, Len(d) - 1)) + (d[Len(d)] - 48)

\* int(x): bytes holding an optionally signed decimal number parse; other bytes
\* raise ValueError and None raises TypeError.
PyInt(x) ==
  IF x.type = "None" THEN Raise("TypeError")
  ELSE IF x.type = "int" THEN x
  ELSE IF x.type = "float" THEN MkInt((x.val[1] - (x.val[1] % 10)) \div 10)
  ELSE LET b == x.val
           signed == b # <<>> /\ Head(b) \in {43, 45}
           d == IF signed THEN Tail(b) ELSE b
       IN IF d = <<>> \/ \E i \in 1..Len(d) : ~IsDigit(d[i]) THEN Raise("ValueError")
          ELSE IF signed /\ Head(b) = 45 THEN MkInt(0 - DigitsValue(d))
          ELSE MkInt(DigitsValue(d))

\* str(x): the text of a str, the repr of anything else.
PyStr(x) == IF x.type = "str" THEN x ELSE MkStr(Repr(x))

\* lambda d: d.decode("utf-8")
PyDecode(x) ==
  IF x.type # "bytes" THEN Raise("AttributeError")
  ELSE LET r == Utf8Decode(x.val)
       IN IF r.ok THEN MkStr(r.val) ELSE Raise("UnicodeDecodeError")

\* fn(data) for the transforms of Fns.
ApplyFn(fn, data) ==
  CASE fn = "int" -> PyInt(data)
    [] fn = "decode" -> PyDecode(data)

\* What the Redis client sends for a value: bytes as they are, a str as UTF-8,
\* an int or a float as its repr; anything else is refused (DataError).
ClientEncode(v) ==
  CASE v.type = "bytes" -> MkBytes(v.val)
    [] v.type = "str" -> MkBytes(Utf8Encode(v.val))
    [] v.type = "int" -> MkBytes(ReprInt(v.val[1]))
    [] v.type = "float" -> MkBytes(ReprFloat(v.val[1]))
    [] OTHER -> Raise("DataError")

\* str(uuid.uuid4()): the text of the generated key (a short stand-in, "k<n>").
KeyStr(k) == <<107>> \o Digits(k)

\* ------------------------------------------------------------------ state
VARIABLES
  kv,       \* Redis string keys: key -> the stored bytes, PyNone when absent
  counter,  \* Redis key "Cache.store": the INCR counter (0 when absent)
  inputs,   \* Redis list "Cache.store:inputs"
  outputs,  \* Redis list "Cache.store:outputs"
  pc,       \* per caller: where its store invocation stands
  data,     \* per caller: the argument of its store invocation
  key,      \* per caller: the key its store invocation generated
  ret,      \* what the last completed operation returned (or printed)
  nextId,   \* history: number of store invocations made so far
  inv,      \* history: per caller, the number of its current invocation
  calls,    \* history: the invocations since the last flush, in call order
  inBy,     \* history: which invocation pushed each entry of inputs
  outBy,    \* history: which invocation pushed each entry of outputs
  orig,     \* history: key -> the Python value store was given for it
  overlapped, \* history: since the last flush of a quiet database, two store
            \* invocations overlapped or a flush cut into one
  cut,      \* history: the last flush happened while a store invocation was in flight
  cmds,     \* history: per caller, the Redis commands its store invocation in
            \* flight has issued, in order, each with the exception it raised
            \* (PyNone: none)
  ended     \* history: the commands of the store invocation that ended last

redis == <<kv, counter, inputs, outputs>>
locals == <<pc, data, key>>
history == <<nextId, inv, calls, inBy, outBy, orig, overlapped, cut, cmds, ended>>
vars == <<kv, counter, inputs, outputs, pc, data, key, ret, nextId, inv, calls, inBy, outBy, orig,
          overlapped, cut, cmds, ended>>

NoKey == 0
Response(op, k, fn, v) == [op |-> op, key |-> k, fn |-> fn, val |-> v]
Running == Response("running", NoKey, "none", PyNone)

\* One Redis command of a store invocation and the exception it raised.
Cmd(c, e) == [cmd |-> c, err |-> e]

\* isinstance(self._redis, redis.Redis): __init__ always makes it one.
IsRedisInstance == TRUE

\* Redis GET: the bytes under the key, None when the key is absent.
RedisGet(db, k) == IF k \in Keys THEN db[k] ELSE PyNone

\* Redis RPUSH of a Python value: the list with the encoded value appended.
RedisRPush(list, v) == Append(list, ClientEncode(v).val)

Init ==
  /\ kv = [k \in Keys |-> PyNone]
  /\ counter = 0
  /\ inputs = <<>>
  /\ outputs = <<>>
  /\ pc = [p \in Procs |-> "idle"]
  /\ data = [p \in Procs |-> PyNone]
  /\ key = [p \in Procs |-> NoKey]
  /\ ret = Response("Cache", NoKey, "none", PyNone)
  /\ nextId = 0
  /\ inv = [p \in Procs |-> 0]
  /\ calls = <<>>
  /\ inBy = <<>>
  /\ outBy = <<>>
  /\ orig = [k \in Keys |-> PyNone]
  /\ overlapped = FALSE
  /\ cut = FALSE
  /\ cmds = [p \in Procs |-> <<>>]
  /\ ended = <<>>

\* Some caller other than p is inside a store invocation.
InFlight(p) == \E q \in Procs \ {p} : pc[q] # "idle"

\* Cache(): a new client on the same database, then FLUSHDB.
NewCache(p) ==
  /\ pc[p] = "idle"
  /\ kv' = [k \in Keys |-> PyNone]
  /\ counter' = 0
  /\ inputs' = <<>>
  /\ outputs' = <<>>
  /\ ret' = Response("Cache", NoKey, "none", PyNone)
  /\ calls' = <<>>
  /\ inBy' = <<>>
  /\ outBy' = <<>>
  /\ orig' = [k \in Keys |-> PyNone]
  /\ overlapped' = InFlight(p)
  /\ cut' = InFlight(p)
  /\ UNCHANGED <<locals, nextId, inv, cmds, ended>>

\* count_calls.invoker that calls the method without INCR.
CountCalls_NoIncr(p, v) ==
  /\ pc[p] = "idle"
  /\ nextId < MaxCalls
  /\ pc' = [pc EXCEPT ![p] = "counted"]
  /\ data' = [data EXCEPT ![p] = v]
  /\ ret' = Running
  /\ nextId' = nextId + 1
  /\ inv' = [inv EXCEPT ![p] = nextId + 1]
  /\ calls' = Append(calls, [id |-> nextId + 1, data |-> v, key |-> NoKey])
  /\ overlapped' = (overlapped \/ InFlight(p))
  /\ cmds' = [cmds EXCEPT ![p] = <<Cmd("incr", PyNone)>>]
  /\ UNCHANGED <<kv, counter, inputs, outputs, key, inBy, outBy, orig, cut, ended>>

\* count_calls.invoker with DECR in place of INCR.
CountCalls_Decr(p, v) ==
  /\ pc[p] = "idle"
  /\ nextId < MaxCalls
  /\ counter' = counter - 1
  /\ pc' = [pc EXCEPT ![p] = "counted"]
  /\ data' = [data EXCEPT ![p] = v]
  /\ ret' = Running
  /\ nextId' = nextId + 1
  /\ inv' = [inv EXCEPT ![p] = nextId + 1]
  /\ calls' = Append(calls, [id |-> nextId + 1, data |-> v, key |-> NoKey])
  /\ overlapped' = (overlapped \/ InFlight(p))
  /\ cmds' = [cmds EXCEPT ![p] = <<Cmd("incr", PyNone)>>]
  /\ UNCHANGED <<kv, inputs, outputs, key, inBy, outBy, orig, cut, ended>>

\* cache.store(v), first step: count_calls.invoker increments the counter.
CountCalls(p, v) ==
  /\ pc[p] = "idle"
  /\ nextId < MaxCalls
  /\ counter' = IF IsRedisInstance THEN counter + 1 ELSE counter
  /\ pc' = [pc EXCEPT ![p] = "counted"]
  /\ data' = [data EXCEPT ![p] = v]
  /\ ret' = Running
  /\ nextId' = nextId + 1
  /\ inv' = [inv EXCEPT ![p] = nextId + 1]
  /\ calls' = Append(calls, [id |-> nextId + 1, data |-> v, key |-> NoKey])
  /\ overlapped' = (overlapped \/ InFlight(p))
  /\ cmds' = [cmds EXCEPT ![p] = <<Cmd("incr", PyNone)>>]
  /\ UNCHANGED <<kv, inputs, outputs, key, inBy, outBy, orig, cut, ended>>

\* call_history.invoker with LPUSH in place of RPUSH for the inputs.
HistoryIn_LPush(p) ==
  /\ pc[p] = "counted"
  /\ inputs' = <<ClientEncode(MkStr(StrArgs(data[p]))).val>> \o inputs
  /\ inBy' = <<inv[p]>> \o inBy
  /\ pc' = [pc EXCEPT ![p] = "in_pushed"]
  /\ cmds' = [cmds EXCEPT ![p] = Append(@, Cmd("rpush_in", PyNone))]
  /\ UNCHANGED <<kv, counter, outputs, data, key, ret, nextId, inv, calls, outBy, orig, overlapped, cut, ended>>

\* call_history.invoker that calls the method first and pushes the input after it.
HistoryIn_AfterSet(p) ==
  /\ pc[p] = "counted"
  /\ \E k \in Keys :
       /\ kv' = [kv EXCEPT ![k] = ClientEncode(data[p])]
       /\ key' = [key EXCEPT ![p] = k]
       /\ orig' = [orig EXCEPT ![k] = data[p]]
  /\ inputs' = RedisRPush(inputs, MkStr(StrArgs(data[p])))
  /\ inBy' = Append(inBy, inv[p])
  /\ pc' = [pc EXCEPT ![p] = "set_done"]
  /\ cmds' = [cmds EXCEPT ![p] = @ \o <<Cmd("set", PyNone), Cmd("rpush_in", PyNone)>>]
  /\ UNCHANGED <<counter, outputs, data, ret, nextId, inv, calls, outBy, overlapped, cut, ended>>

\* call_history.invoker pushes str(args) onto the inputs list.
HistoryIn(p) ==
  /\ pc[p] = "counted"
  /\ inputs' = IF IsRedisInstance THEN RedisRPush(inputs, MkStr(StrArgs(data[p]))) ELSE inputs
  /\ inBy' = IF IsRedisInstance THEN Append(inBy, inv[p]) ELSE inBy
  /\ pc' = [pc EXCEPT ![p] = "in_pushed"]
  /\ cmds' = [cmds EXCEPT ![p] = Append(@, Cmd("rpush_in", PyNone))]
  /\ UNCHANGED <<kv, counter, outputs, data, key, ret, nextId, inv, calls, outBy, orig, overlapped, cut, ended>>

\* The body of store: key = str(uuid4()), then SET key data. uuid4 is random:
\* any name of the pool, one already in use included (SET then overwrites).
StoreBody(p) ==
  /\ pc[p] = "in_pushed"
  /\ ~IsError(ClientEncode(data[p]))
  /\ \E k \in Keys :
       /\ kv' = [kv EXCEPT ![k] = ClientEncode(data[p])]
       /\ key' = [key EXCEPT ![p] = k]
       /\ orig' = [orig EXCEPT ![k] = data[p]]
  /\ pc' = [pc EXCEPT ![p] = "set_done"]
  /\ cmds' = [cmds EXCEPT ![p] = Append(@, Cmd("set", PyNone))]
  /\ UNCHANGED <<counter, inputs, outputs, data, ret, nextId, inv, calls, inBy, outBy, overlapped, cut, ended>>

\* call_history.invoker with LPUSH in place of RPUSH for the outputs.
HistoryOut_LPush(p) ==
  /\ pc[p] = "set_done"
  /\ outputs' = <<ClientEncode(MkStr(KeyStr(key[p]))).val>> \o outputs
  /\ outBy' = <<inv[p]>> \o outBy
  /\ calls' = [i \in 1..Len(calls) |->
                 IF calls[i].id = inv[p] THEN [calls[i] EXCEPT !.key = key[p]] ELSE calls[i]]
  /\ ret' = Response("store", key[p], "none", MkStr(KeyStr(key[p])))
  /\ pc' = [pc EXCEPT ![p] = "idle"]
  /\ data' = [data EXCEPT ![p] = PyNone]
  /\ key' = [key EXCEPT ![p] = NoKey]
  /\ inv' = [inv EXCEPT ![p] = 0]
  /\ cmds' = [cmds EXCEPT ![p] = <<>>]
  /\ ended' = Append(cmds[p], Cmd("rpush_out", PyNone))
  /\ UNCHANGED <<kv, counter, inputs, nextId, inBy, orig, overlapped, cut>>

\* call_history.invoker pushes the returned key onto the outputs list; the
\* invocation returns the key.
HistoryOut(p) ==
  /\ pc[p] = "set_done"
  /\ outputs' = IF IsRedisInstance THEN RedisRPush(outputs, MkStr(KeyStr(key[p]))) ELSE outputs
  /\ outBy' = IF IsRedisInstance THEN Append(outBy, inv[p]) ELSE outBy
  /\ calls' = [i \in 1..Len(calls) |->
                 IF calls[i].id = inv[p] THEN [calls[i] EXCEPT !.key = key[p]] ELSE calls[i]]
  /\ ret' = Response("store", key[p], "none", MkStr(KeyStr(key[p])))
  /\ pc' = [pc EXCEPT ![p] = "idle"]
  /\ data' = [data EXCEPT ![p] = PyNone]
  /\ key' = [key EXCEPT ![p] = NoKey]
  /\ inv' = [inv EXCEPT ![p] = 0]
  /\ cmds' = [cmds EXCEPT ![p] = <<>>]
  /\ ended' = Append(cmds[p], Cmd("rpush_out", PyNone))
  /\ UNCHANGED <<kv, counter, inputs, nextId, inBy, orig, overlapped, cut>>

\* The Redis server cannot be reached.
ConnectionError == Raise("ConnectionError")

\* The invocation of caller p ends by raising e out of its command c: nothing
\* catches the exception, so no later statement of the invocation runs.
Propagate(p, c, e) ==
  /\ cmds' = [cmds EXCEPT ![p] = <<>>]
  /\ ended' = Append(cmds[p], Cmd(c, e))
  /\ ret' = Response("store", NoKey, "none", e)
  /\ pc' = [pc EXCEPT ![p] = "idle"]
  /\ data' = [data EXCEPT ![p] = PyNone]
  /\ key' = [key EXCEPT ![p] = NoKey]
  /\ inv' = [inv EXCEPT ![p] = 0]

\* cache.store(v) whose INCR fails.
IncrFails(p, v) ==
  /\ pc[p] = "idle"
  /\ nextId < MaxCalls
  /\ nextId' = nextId + 1
  /\ calls' = Append(calls, [id |-> nextId + 1, data |-> v, key |-> NoKey])
  /\ ended' = <<Cmd("incr", ConnectionError)>>
  /\ ret' = Response("store", NoKey, "none", ConnectionError)
  /\ UNCHANGED <<redis, locals, inv, inBy, outBy, orig, overlapped, cut, cmds>>

\* The RPUSH onto the inputs list fails.
RPushInFails(p) ==
  /\ pc[p] = "counted"
  /\ Propagate(p, "rpush_in", ConnectionError)
  /\ UNCHANGED <<redis, nextId, calls, inBy, outBy, orig, overlapped, cut>>

\* What SET can raise for the value: DataError for a type the client cannot
\* encode, ConnectionError for any value.
SetErrors(v) ==
  {ConnectionError} \cup (IF IsError(ClientEncode(v)) THEN {ClientEncode(v)} ELSE {})

\* A failing SET that takes back what the invocation recorded so far.
SetFails_Rollback(p) ==
  /\ pc[p] = "in_pushed"
  /\ \E e \in SetErrors(data[p]) : Propagate(p, "set", e)
  /\ counter' = counter - 1
  /\ inputs' = SubSeq(inputs, 1, Len(inputs) - 1)
  /\ inBy' = SubSeq(inBy, 1, Len(inBy) - 1)
  /\ UNCHANGED <<kv, outputs, nextId, calls, outBy, orig, overlapped, cut>>

\* The SET of the store body fails.
SetFails(p) ==
  /\ pc[p] = "in_pushed"
  /\ \E e \in SetErrors(data[p]) : Propagate(p, "set", e)
  /\ UNCHANGED <<redis, nextId, calls, inBy, outBy, orig, overlapped, cut>>

\* A failing RPUSH onto the outputs list that is caught: the key is returned.
RPushOutFails_Swallow(p) ==
  /\ pc[p] = "set_done"
  /\ cmds' = [cmds EXCEPT ![p] = <<>>]
  /\ ended' = Append(cmds[p], Cmd("rpush_out", ConnectionError))
  /\ ret' = Response("store", key[p], "none", MkStr(KeyStr(key[p])))
  /\ pc' = [pc EXCEPT ![p] = "idle"]
  /\ data' = [data EXCEPT ![p] = PyNone]
  /\ key' = [key EXCEPT ![p] = NoKey]
  /\ inv' = [inv EXCEPT ![p] = 0]
  /\ UNCHANGED <<redis, nextId, calls, inBy, outBy, orig, overlapped, cut>>

\* The RPUSH onto the outputs list fails.
RPushOutFails(p) ==
  /\ pc[p] = "set_done"
  /\ Propagate(p, "rpush_out", ConnectionError)
  /\ UNCHANGED <<redis, nextId, calls, inBy, outBy, orig, overlapped, cut>>

\* The calling process dies between two commands of its store invocation.
Crash(p) ==
  /\ pc[p] # "idle"
  /\ ret' = Response("crash", NoKey, "none", PyNone)
  /\ pc' = [pc EXCEPT ![p] = "idle"]
  /\ data' = [data EXCEPT ![p] = PyNone]
  /\ key' = [key EXCEPT ![p] = NoKey]
  /\ inv' = [inv EXCEPT ![p] = 0]
  /\ cmds' = [cmds EXCEPT ![p] = <<>>]
  /\ ended' = cmds[p]
  /\ UNCHANGED <<redis, nextId, calls, inBy, outBy, orig, overlapped, cut>>

\* get on a client that decodes its responses (decode_responses=True).
get_Decoding(db, k, fn) ==
  LET d == RedisGet(db, k)
      t == IF d = PyNone THEN d ELSE PyDecode(d)
  IN IF fn # "none" THEN ApplyFn(fn, t) ELSE t

\* get that drops the transform.
get_IgnoreFn(db, k, fn) == RedisGet(db, k)

\* Cache.get: the raw value, through fn when one is given.
get(db, k, fn) ==
  LET d == RedisGet(db, k)
  IN IF fn # "none" THEN ApplyFn(fn, d) ELSE d

\* Cache.get_str: None for an absent key, else str(data).
get_str(db, k) ==
  LET d == get(db, k, "none")
  IN IF d = PyNone THEN PyNone ELSE PyStr(d)

\* get_int without the None check.
get_int_NoNoneCheck(db, k) == PyInt(get(db, k, "none"))

\* get_int (module level, called with the cache): None for an absent key, else int(data).
get_int(db, k) ==
  LET d == get(db, k, "none")
  IN IF d = PyNone THEN PyNone ELSE PyInt(d)

Min(a, b) == IF a < b THEN a ELSE b

\* replay that prints the raw list entries without decoding them.
replay_NoDecode(ins, outs) ==
  [count |-> Len(ins),
   lines |-> [i \in 1..Min(Len(ins), Len(outs)) |->
                [inp |-> PyStr(MkBytes(ins[i])), out |-> PyStr(MkBytes(outs[i]))]]]

\* replay whose header counts the zipped pairs.
replay_CountPairs(ins, outs) ==
  [count |-> Min(Len(ins), Len(outs)),
   lines |-> [i \in 1..Min(Len(ins), Len(outs)) |->
                [inp |-> PyDecode(MkBytes(ins[i])), out |-> PyDecode(MkBytes(outs[i]))]]]

\* replay: what it prints, the count of the header line and one line per zipped pair.
replay(ins, outs) ==
  [count |-> Len(ins),
   lines |-> [i \in 1..Min(Len(ins), Len(outs)) |->
                [inp |-> PyDecode(MkBytes(ins[i])), out |-> PyDecode(MkBytes(outs[i]))]]]

\* get with GETDEL in place of GET.
Get_Del(p, k, fn) ==
  /\ pc[p] = "idle"
  /\ ret' = Response("get", k, fn, get(kv, k, fn))
  /\ kv' = [j \in Keys |-> IF j = k THEN PyNone ELSE kv[j]]
  /\ UNCHANGED <<counter, inputs, outputs, locals, history>>

\* get wrapped by count_calls.
Get_Counted(p, k, fn) ==
  /\ pc[p] = "idle"
  /\ ret' = Response("get", k, fn, get(kv, k, fn))
  /\ counter' = counter + 1
  /\ UNCHANGED <<kv, inputs, outputs, locals, history>>

\* cache.get(k, fn)
Get(p, k, fn) ==
  /\ pc[p] = "idle"
  /\ ret' = Response("get", k, fn, get(kv, k, fn))
  /\ UNCHANGED <<redis, locals, history>>

GetStr(p, k) ==
  /\ pc[p] = "idle"
  /\ ret' = Response("get_str", k, "none", get_str(kv, k))
  /\ UNCHANGED <<redis, locals, history>>

GetInt(p, k) ==
  /\ pc[p] = "idle"
  /\ ret' = Response("get_int", k, "none", get_int(kv, k))
  /\ UNCHANGED <<redis, locals, history>>

\* replay that consumes the history lists while reading them.
Replay_Pop(p) ==
  /\ pc[p] = "idle"
  /\ ret' = Response("replay", NoKey, "none", replay(inputs, outputs))
  /\ inputs' = <<>>
  /\ outputs' = <<>>
  /\ inBy' = <<>>
  /\ outBy' = <<>>
  /\ UNCHANGED <<kv, counter, locals, nextId, inv, calls, orig, overlapped, cut, cmds, ended>>

\* replay(cache.store): LRANGE 0 -1 of both lists, then the printing.
Replay(p) ==
  /\ pc[p] = "idle"
  /\ LET ins == SubSeq(inputs, 1, Len(inputs))
         outs == SubSeq(outputs, 1, Len(outputs))
     IN ret' = Response("replay", NoKey, "none", replay(ins, outs))
  /\ UNCHANGED <<redis, locals, history>>

ReadKeys == Keys \cup {MissingKey}

\* The single-threaded program: one caller, one operation at a time.
Main == CHOOSE p \in Procs : TRUE

Next ==
  \/ NewCache(Main)
  \/ \E v \in Values : CountCalls(Main, v)
  \/ HistoryIn(Main)
  \/ StoreBody(Main)
  \/ HistoryOut(Main)
  \/ \E k \in ReadKeys, fn \in Fns : Get(Main, k, fn)
  \/ \E k \in ReadKeys : GetStr(Main, k)
  \/ \E k \in ReadKeys : GetInt(Main, k)
  \/ Replay(Main)

Spec == Init /\ [][Next]_vars

\* Concurrent callers of store (and of Cache()): the Redis commands of
\* different callers interleave freely.
NextConc ==
  \/ \E p \in Procs : NewCache(p)
  \/ \E p \in Procs, v \in ConcValues : CountCalls(p, v)
  \/ \E p \in Procs : HistoryIn(p)
  \/ \E p \in Procs : StoreBody(p)
  \/ \E p \in Procs : HistoryOut(p)

SpecConc == Init /\ [][NextConc]_vars

\* The single-threaded program against a Redis whose commands can fail, with
\* values of unsupported types and crashes of the caller.
NextFail ==
  \/ NewCache(Main)
  \/ \E v \in FailValues : CountCalls(Main, v)
  \/ HistoryIn(Main)
  \/ StoreBody(Main)
  \/ HistoryOut(Main)
  \/ \E v \in FailValues : IncrFails(Main, v)
  \/ RPushInFails(Main)
  \/ SetFails(Main)
  \/ RPushOutFails(Main)
  \/ Crash(Main)
  \/ Replay(Main)

SpecFail == Init /\ [][NextFail]_vars

\* Concurrent callers against a Redis whose commands can fail.
NextConcFail ==
  \/ \E p \in Procs : NewCache(p)
  \/ \E p \in Procs, v \in FailValues : CountCalls(p, v)
  \/ \E p \in Procs : HistoryIn(p)
  \/ \E p \in Procs : StoreBody(p)
  \/ \E p \in Procs : HistoryOut(p)
  \/ \E p \in Procs, v \in FailValues : IncrFails(p, v)
  \/ \E p \in Procs : RPushInFails(p)
  \/ \E p \in Procs : SetFails(p)
  \/ \E p \in Procs : RPushOutFails(p)
  \/ \E p \in Procs : Crash(p)

SpecConcFail == Init /\ [][NextConcFail]_vars

\* ----------------------------------------------------------------- claims
Present(k) == RedisGet(kv, k) # PyNone

\* C1 (as stated): get(store(V)) with no transform equals V, for V of every
\* supported type.
C1_RoundTripAllTypes ==
  (ret.op = "get" /\ ret.fn = "none" /\ Present(ret.key))
    => PyEq(ret.val, orig[ret.key])

\* C1 (amended): get(store(V)) with no transform equals V when V is a byte
\* sequence; for a text, an integer or a float it is the bytes the client
\* stored for V (UTF-8 of the text, the repr of the number), which do not equal V.
C1_RoundTripBytes ==
  (ret.op = "get" /\ ret.fn = "none" /\ Present(ret.key))
    => LET V == orig[ret.key]
       IN IF V.type = "bytes" THEN PyEq(ret.val, V)
          ELSE ret.val = ClientEncode(V) /\ ~PyEq(ret.val, V)

C1_Witness ==
  /\ ret.op = "get" /\ ret.fn = "none" /\ Present(ret.key)
  /\ orig[ret.key] = MkBytes(<<102, 111, 111>>)
  /\ ret.val = MkBytes(<<102, 111, 111>>)

\* C2: get(store(V), F) is F applied once to the bytes stored for V; so
\* get(store(123), int) = 123 and get(store("bar"), decode) = "bar" (any int,
\* any text).
C2_TransformApplied ==
  (ret.op = "get" /\ ret.fn # "none" /\ Present(ret.key))
    => LET V == orig[ret.key]
       IN /\ ret.val = ApplyFn(ret.fn, ClientEncode(V))
          /\ (ret.fn = "int" /\ V.type = "int") => PyEq(ret.val, V)
          /\ (ret.fn = "decode" /\ V.type = "str") => PyEq(ret.val, V)

C2_Witness ==
  /\ ret.op = "get" /\ ret.fn = "int" /\ Present(ret.key)
  /\ orig[ret.key] = MkInt(123)
  /\ ret.val = MkInt(123)

\* C3: the counter under "Cache.store" equals the number of store invocations
\* made on the database since it was last flushed.
C3_CounterCountsCalls == counter = Len(calls)

C3_Witness == counter = Len(calls) /\ Len(calls) >= 2 /\ ret.op = "store"

\* C4: with no invocation in flight, after N invocations both history lists have
\* length N, the i-th input is str(args) of the i-th call and the i-th output
\* is the key the i-th call returned.
C4_HistoryMatchesCalls ==
  (\A p \in Procs : pc[p] = "idle")
    => /\ Len(inputs) = Len(calls)
       /\ Len(outputs) = Len(calls)
       /\ \A i \in 1..Len(calls) :
            /\ calls[i].key \in Keys
            /\ PyDecode(MkBytes(inputs[i])) = MkStr(StrArgs(calls[i].data))
            /\ PyDecode(MkBytes(outputs[i])) = MkStr(KeyStr(calls[i].key))

C4_Witness ==
  /\ \A p \in Procs : pc[p] = "idle"
  /\ Len(inputs) >= 2 /\ Len(outputs) = Len(inputs)
  /\ calls[1].data # calls[2].data

C6_AbsentGetReturnsNone ==
  (ret.op = "get" /\ ~Present(ret.key)) => ret.val = PyNone

\* C7: for a present key get_str(key) = get(key, decode) and get_int(key) =
\* get(key, int); so get_str(store(T)) = T for a text T and get_int(store(I)) = I
\* for an integer I.
C7_SpecializeGet ==
  /\ (ret.op = "get_str" /\ Present(ret.key))
       => /\ ret.val = get(kv, ret.key, "decode")
          /\ orig[ret.key].type = "str" => PyEq(ret.val, orig[ret.key])
  /\ (ret.op = "get_int" /\ Present(ret.key))
       => /\ ret.val = get(kv, ret.key, "int")
          /\ orig[ret.key].type = "int" => PyEq(ret.val, orig[ret.key])

\* C8: get_str and get_int on an absent key return None and raise nothing.
C8_AbsentReturnsNone ==
  (ret.op \in {"get_str", "get_int"} /\ ~Present(ret.key)) => ret.val = PyNone

C8_Witness ==
  /\ ret.op = "get_int" /\ ~Present(ret.key) /\ ret.val = PyNone
  /\ \E k \in Keys : Present(k)

\* C9: a step that runs replay leaves the counter, both history lists and every
\* stored key/value as they were.
C9_ReplayReadOnly ==
  [][ret'.op = "replay" => UNCHANGED <<kv, counter, inputs, outputs>>]_vars

C9_Witness ==
  /\ ret.op = "replay"
  /\ counter >= 1 /\ Len(inputs) >= 1 /\ Len(outputs) >= 1
  /\ \E k \in Keys : Present(k)

\* C10: after N completed store calls on a fresh cache, replay prints a header
\* with the count N and then N lines in call order, the i-th with str(args) of
\* the i-th call and the key that call returned.
C10_ReplayPrintsCalls ==
  ret.op = "replay"
    => /\ ret.val.count = Len(calls)
       /\ Len(ret.val.lines) = Len(calls)
       /\ \A i \in 1..Len(calls) :
            /\ ret.val.lines[i].inp = MkStr(StrArgs(calls[i].data))
            /\ ret.val.lines[i].out = MkStr(KeyStr(calls[i].key))
            /\ Present(calls[i].key)

C10_Witness ==
  /\ ret.op = "replay"
  /\ ret.val.count = 2 /\ Len(ret.val.lines) = 2
  /\ ret.val.lines[1] # ret.val.lines[2]

IsPrefix(a, b) == Len(a) <= Len(b) /\ SubSeq(b, 1, Len(a)) = a

\* C11 (as stated): over any sequence of cache operations, constructing a cache
\* included, the counter never gets smaller.
C11_CounterNeverDecreases == [][counter' >= counter]_vars

\* C11 (amended): store, get, get_str, get_int and replay never make the counter
\* smaller; constructing a cache flushes the database and puts the counter back
\* to zero.
C11_CounterMonotoneUntilFlush ==
  [][IF ret'.op = "Cache" THEN counter' = 0 ELSE counter' >= counter]_vars

C11_Witness == counter >= 2 /\ ret.op \in {"get", "get_str", "get_int", "replay"}

\* C12 (as stated): over any sequence of cache operations, constructing a cache
\* included, each history list in an earlier state is a prefix of the same list
\* in every later state.
C12_HistoryAppendOnly ==
  [][IsPrefix(inputs, inputs') /\ IsPrefix(outputs, outputs')]_vars

\* C12 (amended): store, get, get_str, get_int and replay only append to the
\* history lists (the lists before the step are prefixes of the lists after
\* it); constructing a cache flushes the database and empties both lists.
C12_HistoryAppendOnlyUntilFlush ==
  [][IF ret'.op = "Cache" THEN inputs' = <<>> /\ outputs' = <<>>
     ELSE IsPrefix(inputs, inputs') /\ IsPrefix(outputs, outputs')]_vars

C12_Witness ==
  /\ Len(inputs) >= 2 /\ Len(outputs) >= 2
  /\ inputs[1] # inputs[2]
  /\ ret.op \in {"store", "get", "get_str", "get_int", "replay"}

\* The order in which one store invocation issues its Redis commands.
Order == <<"incr", "rpush_in", "set", "rpush_out">>
Names(t) == [i \in 1..Len(t) |-> t[i].cmd]
CmdNames(p) == Names(cmds[p])
Issued(p, c) == \E i \in 1..Len(cmds[p]) : cmds[p][i].cmd = c
Range(f) == {f[i] : i \in 1..Len(f)}

\* C14: every store invocation issues INCR, RPUSH inputs, SET, RPUSH outputs in
\* this order, each effect is in the database exactly when its command was
\* issued, and the key is returned only after all four.
C14_FixedOrder ==
  /\ \A p \in Procs :
       /\ IsPrefix(CmdNames(p), Order)
       /\ pc[p] # "idle"
            => /\ Issued(p, "incr") /\ counter >= 1
               /\ Issued(p, "rpush_in") <=> inv[p] \in Range(inBy)
               /\ Issued(p, "set") <=> (key[p] # NoKey /\ Present(key[p]))
               /\ ~Issued(p, "rpush_out") /\ inv[p] \notin Range(outBy)
  /\ (ret.op = "store" /\ ret.key # NoKey) => Names(ended) = Order

C14_Witness ==
  /\ ret.op = "store" /\ ret.key # NoKey /\ Present(ret.key)
  /\ Names(ended) = Order
  /\ Len(outputs) >= 2

\* C13: when INCR, the RPUSH of the input, SET or the RPUSH of the output fails,
\* store raises that same exception and returns no key, the failed command is the
\* last one the invocation issues, and no command is issued twice (no retry).
C13_FailurePropagates ==
  /\ \A p \in Procs : \A i \in 1..Len(cmds[p]) : cmds[p][i].err = PyNone
  /\ \A i \in 1..Len(ended) : ended[i].err # PyNone => i = Len(ended)
  /\ IsPrefix(Names(ended), Order)
  /\ ret.op = "store"
       => /\ ended # <<>>
          /\ IF ended[Len(ended)].err # PyNone
             THEN ret.val = ended[Len(ended)].err /\ ret.key = NoKey
             ELSE ~IsError(ret.val) /\ ret.key # NoKey

C13_Witness ==
  /\ ret.op = "store" /\ ret.val = ConnectionError /\ ret.key = NoKey
  /\ Names(ended) = Order
  /\ Len(inputs) = 2 /\ Len(outputs) = 1

\* What replay prints for position i of the two history lists.
Line(i) == [inp |-> PyDecode(MkBytes(inputs[i])), out |-> PyDecode(MkBytes(outputs[i]))]

\* C16 (as stated): when the history lists differ in length, replay prints
\* min(len(inputs), len(outputs)) call lines, line i from inputs[i] and
\* outputs[i], and the count of its header is the number of lines it prints.
C16_CountIsLinesPrinted ==
  (ret.op = "replay" /\ Len(inputs) # Len(outputs))
    => /\ Len(ret.val.lines) = Min(Len(inputs), Len(outputs))
       /\ \A i \in 1..Len(ret.val.lines) : ret.val.lines[i] = Line(i)
       /\ ret.val.count = Len(ret.val.lines)

\* C16 (amended): when the history lists differ in length, replay prints
\* min(len(inputs), len(outputs)) call lines, line i from inputs[i] and
\* outputs[i]; the count of its header is len(inputs), the number of recorded
\* calls, which is larger than the number of lines when outputs is the shorter list.
C16_CountIsInputsLength ==
  (ret.op = "replay" /\ Len(inputs) # Len(outputs))
    => /\ Len(ret.val.lines) = Min(Len(inputs), Len(outputs))
       /\ \A i \in 1..Len(ret.val.lines) : ret.val.lines[i] = Line(i)
       /\ ret.val.count = Len(inputs)
       /\ Len(outputs) < Len(inputs) => ret.val.count > Len(ret.val.lines)

C16_Witness ==
  /\ ret.op = "replay"
  /\ Len(inputs) = 2 /\ Len(outputs) = 1
  /\ Len(ret.val.lines) = 1 /\ ret.val.count = 2

\* The step in which the store invocation of caller p ends because its SET raised.
SetFailed(p) == pc[p] = "in_pushed" /\ pc'[p] = "idle" /\ ret'.op = "store"

\* The step in which caller p dies inside its store invocation.
Crashed(p) == pc[p] # "idle" /\ pc'[p] = "idle" /\ ret'.op = "crash"

\* C17 (as stated): a store invocation whose SET fails, or that crashes between
\* two steps, ends with the counter incremented and its input appended, with no
\* output appended and no value stored, and nothing is rolled back.
C17_CounterAndInputOnly ==
  [][\A p \in Procs :
       (SetFailed(p) \/ Crashed(p))
         => /\ UNCHANGED <<kv, counter, inputs, outputs>>
            /\ counter' >= 1
            /\ inv[p] \in Range(inBy')
            /\ inv[p] \notin Range(outBy')
            /\ key[p] = NoKey]_vars

\* C17 (amended): nothing is rolled back when a store invocation ends early. One
\* whose SET fails ends with the counter incremented and its input appended, with
\* no output appended and no value stored. One that crashes between two steps
\* ends with the effects of the commands it had issued: the counter incremented,
\* its input appended only if the RPUSH of the input was issued, its value stored
\* only if SET was issued, and no output appended.
C17_EffectsOfIssuedCommandsStay ==
  [][\A p \in Procs :
       /\ SetFailed(p)
            => /\ UNCHANGED <<kv, counter, inputs, outputs>>
               /\ counter' >= 1
               /\ inv[p] \in Range(inBy')
               /\ inv[p] \notin Range(outBy')
               /\ key[p] = NoKey
       /\ Crashed(p)
            => /\ UNCHANGED <<kv, counter, inputs, outputs>>
               /\ counter' >= 1
               /\ inv[p] \in Range(inBy') <=> Issued(p, "rpush_in")
               /\ inv[p] \notin Range(outBy')
               /\ (key[p] # NoKey /\ kv'[key[p]] = ClientEncode(data[p])) <=> Issued(p, "set")]_vars

C17_Witness ==
  /\ ret.op = "store" /\ ret.val = Raise("DataError")
  /\ Names(ended) = <<"incr", "rpush_in", "set">>
  /\ counter = 2 /\ Len(inputs) = 2 /\ Len(outputs) = 1
  /\ \E k \in Keys : \A j \in Keys : Present(j) <=> j = k

\* C15 (as stated): a step of store, get, get_str, get_int or replay leaves
\* every stored value as it was, so get(k) with no transform keeps returning the
\* same bytes; only the flush of Cache() removes or changes a value.
C15_StoredValueImmutable ==
  [][ret'.op # "Cache"
       => \A k \in Keys :
            Present(k) => kv'[k] = kv[k] /\ get(kv', k, "none") = get(kv, k, "none")]_vars

\* C15 (amended): the same, except for a later store whose uuid4 key is k again:
\* its SET overwrites the value under k.
C15_ImmutableUnlessKeyReused ==
  [][ret'.op # "Cache"
       => \A k \in Keys :
            Present(k)
              => \/ kv'[k] = kv[k] /\ get(kv', k, "none") = get(kv, k, "none")
                 \/ \E p \in Procs : key[p] = NoKey /\ key'[p] = k]_vars

C15_Witness ==
  /\ ret.op = "get" /\ ret.fn = "none"
  /\ Len(calls) >= 2 /\ calls[1].key = ret.key
  /\ Present(calls[2].key) /\ calls[2].key # calls[1].key
  /\ ret.val = ClientEncode(calls[1].data)

\* C18 (as stated): in every reachable state, whatever the interleaving of
\* concurrent store invocations and wherever one fails or crashes,
\* len(outputs) <= len(inputs) <= counter.
C18_HistoryWithinCounter ==
  Len(outputs) <= Len(inputs) /\ Len(inputs) <= counter

\* C18 (amended): len(outputs) <= len(inputs) <= counter in every reachable
\* state, whatever the interleaving of concurrent store invocations and wherever
\* one fails or crashes, unless the last Cache() flushed the database while a
\* store invocation was in flight.
C18_HistoryWithinCounterUnlessCut ==
  ~cut => (Len(outputs) <= Len(inputs) /\ Len(inputs) <= counter)

C18_Witness ==
  /\ ~cut
  /\ ret.op = "crash"
  /\ counter = 2 /\ Len(inputs) = 1 /\ Len(outputs) = 0
  /\ \E p \in Procs : pc[p] = "in_pushed"

\* C19: a step that runs get, get_str or get_int leaves the counter, both
\* history lists and every stored key/value as they were.
C19_ReadsChangeNothing ==
  [][ret'.op \in {"get", "get_str", "get_int"}
       => UNCHANGED <<kv, counter, inputs, outputs>>]_vars

C19_Witness ==
  /\ ret.op \in {"get", "get_str", "get_int"}
  /\ counter >= 1 /\ Len(inputs) >= 1 /\ Len(outputs) >= 1
  /\ Present(ret.key)

====
